---------------------------- MODULE Spec2Model ----------------------------
(***************************************************************************)
(* pythion: the source-tree indexer (src/pythion/src/indexer.py) and the   *)
(* lookups made against it (NodeIndexer.get_dependencies and               *)
(* DocManager._get_source_code_from_name in src/pythion/src/doc_writer.py).*)
(*                                                                         *)
(* Text is a sequence of one-character strings, so that slicing, substring *)
(* tests and lengths are those of the Python strings.  A parse tree is a   *)
(* record with a field k naming the node class (FunctionDef, ClassDef, If, *)
(* Expr, Return, Pass, Constant, Name, Attribute, Call).                   *)
(***************************************************************************)
EXTENDS Integers, Sequences, FiniteSets

(***************************************************************************)
(* Text helpers                                                            *)
(***************************************************************************)
NL == <<"\n">>
SP == <<" ">>
INDENT == <<" ", " ", " ", " ">>

Lower == {"a","b","c","d","e","f","g","h","i","j","k","l","m",
          "n","o","p","q","r","s","t","u","v","w","x","y","z"}
Upper == {"A","B","C","D","E","F","G","H","I","J","K","L","M",
          "N","O","P","Q","R","S","T","U","V","W","X","Y","Z"}
Digit == {"0","1","2","3","4","5","6","7","8","9"}
IdChar == Lower \cup Upper \cup Digit \cup {"_"}

StartsWith(s, p) == Len(s) >= Len(p) /\ SubSeq(s, 1, Len(p)) = p
EndsWith(s, p) == Len(s) >= Len(p) /\ SubSeq(s, Len(s) - Len(p) + 1, Len(s)) = p

\* Python's `p in s` for strings: p occurs in s as a contiguous substring.
Contains(s, p) ==
    \E i \in 1..(Len(s) - Len(p) + 1) : SubSeq(s, i, i + Len(p) - 1) = p

\* Python's s[:n]
Take(s, n) == SubSeq(s, 1, IF Len(s) < n THEN Len(s) ELSE n)

IsPrefix(p, s) == Len(p) <= Len(s) /\ SubSeq(s, 1, Len(p)) = p

Repeat(c, n) == [i \in 1..n |-> c]

(***************************************************************************)
(* Parse-tree constructors (the ast node classes the indexer meets)        *)
(***************************************************************************)
Str(s) == [k |-> "Constant", type |-> "str", v |-> s]
Num(s) == [k |-> "Constant", type |-> "int", v |-> s]
Ellipsis == [k |-> "Constant", type |-> "ellipsis", v |-> <<".", ".", ".">>]
Name(id) == [k |-> "Name", id |-> id]
Attribute(value, attr) == [k |-> "Attribute", value |-> value, attr |-> attr]
Call(func, args) == [k |-> "Call", func |-> func, args |-> args]

NoAnn == [k |-> "None"]
Arg(name, ann) == [arg |-> name, annotation |-> ann]

Pass == [k |-> "Pass"]
Expr(value) == [k |-> "Expr", value |-> value]
Return(value) == [k |-> "Return", value |-> value]
IfTrue(body) == [k |-> "If", body |-> body]
\* args is node.args.args, kwonlyargs is node.args.kwonlyargs
FunctionDefKw(name, args, kwonlyargs, body) ==
    [k |-> "FunctionDef", name |-> name, args |-> args,
     kwonlyargs |-> kwonlyargs, body |-> body]
FunctionDef(name, args, body) == FunctionDefKw(name, args, <<>>, body)
ClassDef(name, body) == [k |-> "ClassDef", name |-> name, body |-> body]
Module(body) == [k |-> "Module", body |-> body]

IsDef(n) == n.k \in {"FunctionDef", "ClassDef"}
\* the statements that hold a body of statements
IsCompound(n) == n.k \in {"FunctionDef", "ClassDef", "If", "Module"}

(***************************************************************************)
(* ast.unparse, for the node classes above                                 *)
(***************************************************************************)
RECURSIVE UnparseExpr(_)
RECURSIVE UnparseExprs(_)
\* ", ".join of the expressions' text
UnparseExprs(es) ==
    IF es = <<>> THEN <<>>
    ELSE IF Len(es) = 1 THEN UnparseExpr(es[1])
    ELSE UnparseExpr(es[1]) \o <<",", " ">> \o UnparseExprs(Tail(es))

UnparseExpr(e) ==
    CASE e.k = "Constant" ->
           IF e.type = "str" THEN <<"'">> \o e.v \o <<"'">> ELSE e.v
      [] e.k = "Name" -> e.id
      [] e.k = "Attribute" -> UnparseExpr(e.value) \o <<".">> \o e.attr
      [] e.k = "Call" ->
           UnparseExpr(e.func) \o <<"(">>
             \o UnparseExprs(e.args)
             \o <<")">>

UnparseArg(a) ==
    IF a.annotation.k = "None" THEN a.arg
    ELSE a.arg \o <<":", " ">> \o UnparseExpr(a.annotation)

RECURSIVE UnparseArgs(_)
UnparseArgs(args) ==
    IF args = <<>> THEN <<>>
    ELSE IF Len(args) = 1 THEN UnparseArg(args[1])
    ELSE UnparseArg(args[1]) \o <<",", " ">> \o UnparseArgs(Tail(args))

\* _Unparser.visit_arguments: the parameters, then a bare "*" and the
\* keyword-only parameters when there are any
UnparseArguments(args, kwonlyargs) ==
    IF kwonlyargs = <<>> THEN UnparseArgs(args)
    ELSE IF args = <<>> THEN <<"*", ",", " ">> \o UnparseArgs(kwonlyargs)
    ELSE UnparseArgs(args) \o <<",", " ", "*", ",", " ">> \o UnparseArgs(kwonlyargs)

\* _Unparser.maybe_newline: a newline unless nothing was written yet
MaybeNewline(src) == IF src = <<>> THEN src ELSE src \o NL

\* _Unparser.fill: start a new line at the current indentation
Fill(src, ind, text) ==
    MaybeNewline(src) \o Repeat(" ", 4 * ind) \o text

\* _Unparser.get_raw_docstring: the leading string constant of a body
HasRawDocstring(body) ==
    /\ body # <<>>
    /\ body[1].k = "Expr"
    /\ body[1].value.k = "Constant"
    /\ body[1].value.type = "str"

TQ == <<"\"", "\"", "\"">>

RECURSIVE UnparseStmt(_, _, _)
RECURSIVE UnparseBody(_, _, _)
RECURSIVE UnparseDefBody(_, _, _)
\* the statements of a body, each at indentation ind, appended to src
UnparseBody(src, body, ind) ==
    IF body = <<>> THEN src
    ELSE UnparseBody(UnparseStmt(src, body[1], ind), Tail(body), ind)

\* _write_docstring_and_traverse_body: a leading string is written in
\* triple quotes, the rest as statements
UnparseDefBody(src, body, ind) ==
    IF HasRawDocstring(body)
    THEN UnparseBody(Fill(src, ind, TQ \o body[1].value.v \o TQ), Tail(body), ind)
    ELSE UnparseBody(src, body, ind)

UnparseStmt(src, n, ind) ==
    CASE n.k = "Pass" -> Fill(src, ind, <<"p","a","s","s">>)
      [] n.k = "Expr" -> Fill(src, ind, UnparseExpr(n.value))
      [] n.k = "Return" ->
           Fill(src, ind, <<"r","e","t","u","r","n">> \o SP \o UnparseExpr(n.value))
      [] n.k = "If" ->
           UnparseBody(Fill(src, ind, <<"i","f"," ","T","r","u","e",":">>),
                       n.body, ind + 1)
      [] n.k = "FunctionDef" ->
           UnparseDefBody(
             Fill(MaybeNewline(src), ind,
                  <<"d","e","f"," ">> \o n.name \o <<"(">>
                    \o UnparseArguments(n.args, n.kwonlyargs) \o <<")", ":">>),
             n.body, ind + 1)
      [] n.k = "ClassDef" ->
           UnparseDefBody(
             Fill(MaybeNewline(src), ind,
                  <<"c","l","a","s","s"," ">> \o n.name \o <<":">>),
             n.body, ind + 1)

\* ast.unparse(node) for a statement or a module
Unparse(n) ==
    IF n.k = "Module" THEN UnparseDefBody(<<>>, n.body, 0)
    ELSE UnparseStmt(<<>>, n, 0)

(***************************************************************************)
(* ast.parse, for the text ast.unparse writes for the node classes above.  *)
(* A result is [ok |-> TRUE, v |-> tree], or Failed for a SyntaxError.     *)
(* String constants hold no quote, bracket, comma or line break.           *)
(***************************************************************************)
Failed == [ok |-> FALSE, v |-> <<>>]
Parsed(v) == [ok |-> TRUE, v |-> v]

Count(s, c, j) == Cardinality({i \in 1..j : s[i] = c})
\* bracket depth after the first j characters
Depth(s, j) == Count(s, "(", j) - Count(s, ")", j)

\* the k-th smallest element of a set of numbers
Kth(S, k) == CHOOSE i \in S : Cardinality({j \in S : j < i}) = k - 1

\* s split at the positions P (sorted), each separator w characters wide
SplitAt(s, P, w) ==
    LET n == Cardinality(P)
        start(j) == IF j = 1 THEN 1 ELSE Kth(P, j - 1) + w
        stop(j) == IF j = n + 1 THEN Len(s) ELSE Kth(P, j) - 1
        RECURSIVE pieces(_)
        pieces(j) == IF j > n + 1 THEN <<>>
                     ELSE <<SubSeq(s, start(j), stop(j))>> \o pieces(j + 1)
    IN  pieces(1)

SplitLines(s) == SplitAt(s, {i \in 1..Len(s) : s[i] = "\n"}, 1)

\* the arguments of a call or of a parameter list: split at each ", " that
\* is outside brackets
SplitTop(s) ==
    IF s = <<>> THEN <<>>
    ELSE SplitAt(s, {i \in 1..(Len(s) - 1) :
                        s[i] = "," /\ s[i + 1] = " " /\ Depth(s, i) = 0}, 2)

LeadingSpaces(l) ==
    IF \A i \in 1..Len(l) : l[i] = " " THEN Len(l)
    ELSE (CHOOSE i \in 1..Len(l) :
            l[i] # " " /\ \A j \in 1..(i - 1) : l[j] = " ") - 1

IsBlank(l) == \A i \in 1..Len(l) : l[i] = " "

\* the non-blank lines, each with its indentation and its text
RECURSIVE LogicalLinesOf(_)
LogicalLinesOf(ls) ==
    IF ls = <<>> THEN <<>>
    ELSE LET l == Head(ls)
             n == LeadingSpaces(l)
         IN  (IF IsBlank(l) THEN <<>>
              ELSE <<[ind |-> n, text |-> SubSeq(l, n + 1, Len(l))]>>)
               \o LogicalLinesOf(Tail(ls))

LogicalLines(s) == LogicalLinesOf(SplitLines(s))

IsIdentifier(s) ==
    /\ s # <<>>
    /\ s[1] \notin Digit
    /\ \A i \in 1..Len(s) : s[i] \in IdChar

StrChar(c) == c \notin {"'", "\"", "(", ")", ",", "\n", "\\"}

\* an element put before a list of parsed elements: [ok, v |-> the elements]
ConsParsed(e, rest) ==
    IF e.ok /\ rest.ok THEN [ok |-> TRUE, v |-> <<e.v>> \o rest.v]
    ELSE [ok |-> FALSE, v |-> <<>>]

ParsedCall(func, args) ==
    IF func.ok /\ args.ok THEN Parsed(Call(func.v, args.v)) ELSE Failed

ParsedAttribute(value, attr) ==
    IF value.ok /\ IsIdentifier(attr) THEN Parsed(Attribute(value.v, attr))
    ELSE Failed

\* the bracket that the last character of s closes
CallOpens(s) ==
    {i \in 1..Len(s) :
        s[i] = "(" /\ Depth(s, i - 1) = 0 /\ Depth(s, Len(s)) = 0
          /\ \A j \in i..(Len(s) - 1) : Depth(s, j) > 0}

LastDot(s) ==
    CHOOSE i \in 1..Len(s) : s[i] = "." /\ \A j \in (i + 1)..Len(s) : s[j] # "."

RECURSIVE ParseExpr(_)
RECURSIVE ParseExprs(_)
\* each of the texts parsed: [ok, v |-> the expressions]
ParseExprs(parts) ==
    IF parts = <<>> THEN [ok |-> TRUE, v |-> <<>>]
    ELSE ConsParsed(ParseExpr(Head(parts)), ParseExprs(Tail(parts)))

\* s is f(args) with its opening bracket at m
ParseCallAt(s, m) ==
    ParsedCall(ParseExpr(SubSeq(s, 1, m - 1)),
               ParseExprs(SplitTop(SubSeq(s, m + 1, Len(s) - 1))))

\* s is value.attr with its last dot at d
ParseAttributeAt(s, d) ==
    ParsedAttribute(ParseExpr(SubSeq(s, 1, d - 1)), SubSeq(s, d + 1, Len(s)))

ParseExpr(s) ==
    IF s = <<>> THEN Failed
    ELSE IF StartsWith(s, TQ) THEN
        IF Len(s) >= 6 /\ EndsWith(s, TQ)
              /\ \A i \in 4..(Len(s) - 3) : StrChar(s[i])
        THEN Parsed(Str(SubSeq(s, 4, Len(s) - 3)))
        ELSE Failed
    ELSE IF s[1] = "'" THEN
        IF Len(s) >= 2 /\ s[Len(s)] = "'"
              /\ \A i \in 2..(Len(s) - 1) : StrChar(s[i])
        THEN Parsed(Str(SubSeq(s, 2, Len(s) - 1)))
        ELSE Failed
    ELSE IF s = <<".", ".", ".">> THEN Parsed(Ellipsis)
    ELSE IF \A i \in 1..Len(s) : s[i] \in Digit THEN Parsed(Num(s))
    ELSE IF s[Len(s)] = ")" THEN
        IF \E m \in 1..Len(s) : m \in CallOpens(s)
        THEN ParseCallAt(s, CHOOSE m \in 1..Len(s) : m \in CallOpens(s))
        ELSE Failed
    ELSE IF \E i \in 1..Len(s) : s[i] = "." THEN ParseAttributeAt(s, LastDot(s))
    ELSE IF IsIdentifier(s) THEN Parsed(Name(s))
    ELSE Failed

ParsedArg(name, ann) ==
    IF IsIdentifier(name) /\ ann.ok THEN Parsed(Arg(name, ann.v)) ELSE Failed

\* "name: annotation" with its colon at c
ParseArgAt(s, c) ==
    ParsedArg(SubSeq(s, 1, c - 1),
              IF c + 1 <= Len(s) /\ s[c + 1] = " "
              THEN ParseExpr(SubSeq(s, c + 2, Len(s))) ELSE Failed)

\* one parameter: "name" or "name: annotation"
ParseArg(s) ==
    IF \A i \in 1..Len(s) : s[i] # ":" THEN
        IF IsIdentifier(s) THEN Parsed(Arg(s, NoAnn)) ELSE Failed
    ELSE ParseArgAt(s, CHOOSE i \in 1..Len(s) :
                          s[i] = ":" /\ \A j \in 1..(i - 1) : s[j] # ":")

RECURSIVE ParseArgs(_)
ParseArgs(parts) ==
    IF parts = <<>> THEN [ok |-> TRUE, v |-> <<>>]
    ELSE ConsParsed(ParseArg(Head(parts)), ParseArgs(Tail(parts)))

KwDef == <<"d","e","f"," ">>
KwClass == <<"c","l","a","s","s"," ">>
KwIfTrue == <<"i","f"," ","T","r","u","e",":">>
KwPass == <<"p","a","s","s">>
KwReturn == <<"r","e","t","u","r","n"," ">>

ParsedClassDef(name) ==
    IF IsIdentifier(name) THEN Parsed(ClassDef(name, <<>>)) ELSE Failed

ParsedFunctionDef(name, args, kwonlyargs) ==
    IF IsIdentifier(name) /\ args.ok /\ kwonlyargs.ok
    THEN Parsed(FunctionDefKw(name, args.v, kwonlyargs.v, <<>>)) ELSE Failed

\* the parameter list with its bare "*" at part s of parts: a name has to
\* follow it
ParseDefStar(name, parts, s) ==
    IF s = Len(parts) THEN Failed
    ELSE ParsedFunctionDef(name, ParseArgs(SubSeq(parts, 1, s - 1)),
                           ParseArgs(SubSeq(parts, s + 1, Len(parts))))

\* the parameter list split into its parts
ParseDefParts(name, parts) ==
    IF \A i \in 1..Len(parts) : parts[i] # <<"*">>
    THEN ParsedFunctionDef(name, ParseArgs(parts), Parsed(<<>>))
    ELSE ParseDefStar(name, parts,
                      CHOOSE i \in 1..Len(parts) :
                        parts[i] = <<"*">> /\ \A j \in 1..(i - 1) : parts[j] # <<"*">>)

\* "def name(args):" with its first opening bracket at o
ParseDefAt(t, o) ==
    ParseDefParts(SubSeq(t, 5, o - 1), SplitTop(SubSeq(t, o + 1, Len(t) - 2)))

\* a line that opens a block, with an empty body to be filled in
ParseHeader(t) ==
    IF t = KwIfTrue THEN Parsed(IfTrue(<<>>))
    ELSE IF StartsWith(t, KwClass) THEN ParsedClassDef(SubSeq(t, 7, Len(t) - 1))
    ELSE IF StartsWith(t, KwDef) /\ EndsWith(t, <<")", ":">>)
              /\ \E i \in 1..Len(t) : t[i] = "(" THEN
        ParseDefAt(t, CHOOSE i \in 1..Len(t) :
                         t[i] = "(" /\ \A j \in 1..(i - 1) : t[j] # "(")
    ELSE Failed

IsHeader(t) == t # <<>> /\ t[Len(t)] = ":"

ParsedReturn(e) == IF e.ok THEN Parsed(Return(e.v)) ELSE Failed

ParsedExpr(e) == IF e.ok THEN Parsed(Expr(e.v)) ELSE Failed

ParseSimple(t) ==
    IF t = KwPass THEN Parsed(Pass)
    ELSE IF StartsWith(t, KwReturn) THEN ParsedReturn(ParseExpr(SubSeq(t, 8, Len(t))))
    ELSE ParsedExpr(ParseExpr(t))

\* the result of ParseStmts when line i cannot be parsed
FailedAt(i) == [ok |-> FALSE, v |-> <<>>, next |-> i]

\* the block made of header h and the statements body, then the statements rest
ParsedBlock(h, body, rest, i) ==
    IF h.ok /\ body.ok /\ rest.ok
    THEN [ok |-> TRUE, v |-> <<[h.v EXCEPT !.body = body.v]>> \o rest.v,
          next |-> rest.next]
    ELSE FailedAt(i)

\* the statement st, then the statements rest
ParsedSeq(st, rest, i) ==
    IF st.ok /\ rest.ok
    THEN [ok |-> TRUE, v |-> <<st.v>> \o rest.v, next |-> rest.next]
    ELSE FailedAt(i)

RECURSIVE ParseStmts(_, _, _)
\* the block opened at line i with the parsed body, and what follows it
ParseAfterBody(L, i, ind, body) ==
    ParsedBlock(ParseHeader(L[i].text), body,
                IF body.ok THEN ParseStmts(L, body.next, ind) ELSE FailedAt(i), i)

\* the statements at indentation ind from line i on:
\* [ok, v |-> statements, next |-> the first line not consumed]
ParseStmts(L, i, ind) ==
    IF i > Len(L) \/ L[i].ind < ind THEN [ok |-> TRUE, v |-> <<>>, next |-> i]
    ELSE IF L[i].ind > ind THEN FailedAt(i)
    ELSE IF IsHeader(L[i].text) THEN
        \* "expected an indented block": the next line must be deeper
        ParseAfterBody(L, i, ind,
                       IF i + 1 <= Len(L) /\ L[i + 1].ind > ind
                       THEN ParseStmts(L, i + 1, L[i + 1].ind) ELSE FailedAt(i))
    ELSE ParsedSeq(ParseSimple(L[i].text), ParseStmts(L, i + 1, ind), i)

ParsedModule(r, n) ==
    IF r.ok /\ r.next = n + 1 THEN Parsed(Module(r.v)) ELSE Failed

ParseLines(L) == ParsedModule(ParseStmts(L, 1, 0), Len(L))

\* ast.parse(text): a Module, or Failed where Python raises SyntaxError
Parse(text) == ParseLines(LogicalLines(text))

(***************************************************************************)
(* NodeTransformer: the cleaning of definitions and the filing of their    *)
(* text.  The code changes the tree in place; here each operator returns   *)
(* the changed node, and visit also returns the <<name, text>> pairs it    *)
(* adds to the index.                                                      *)
(***************************************************************************)
\* isinstance(body[0], ast.Expr) and isinstance(body[0].value, ast.Constant)
IsConstantExpr(stmt) == stmt.k = "Expr" /\ stmt.value.k = "Constant"

\* a cleaning that would leave the body as it is
KeepLeadingConstant(node) == node

\* node.body.pop(0) when the first statement is a constant expression
PopLeadingConstant(node) ==
    IF node.body # <<>> /\ IsConstantExpr(node.body[1])
    THEN [node EXCEPT !.body = Tail(@)]
    ELSE node

clean_function(node) ==
    IF node.k # "FunctionDef" THEN node ELSE PopLeadingConstant(node)

RECURSIVE clean_class(_)
RECURSIVE clean_class_body(_)
\* the loop of clean_class over the statements of the class
clean_class_body(body) ==
    IF body = <<>> THEN <<>>
    ELSE LET stmt == Head(body)
             cleaned == IF stmt.k = "FunctionDef" THEN clean_function(stmt)
                        ELSE IF stmt.k = "ClassDef" THEN clean_class(stmt)
                        ELSE stmt
         IN  <<cleaned>> \o clean_class_body(Tail(body))

clean_class(node) ==
    IF node.k # "ClassDef" THEN node
    ELSE LET popped == PopLeadingConstant(node)
         IN  [popped EXCEPT !.body = clean_class_body(popped.body)]

RECURSIVE visit(_)
RECURSIVE visit_all(_)
\* the statements of a body visited in turn: [nodes, adds]
visit_all(body) ==
    IF body = <<>> THEN [nodes |-> <<>>, adds |-> {}]
    ELSE LET r == visit(Head(body))
             rest == visit_all(Tail(body))
         IN  [nodes |-> <<r.node>> \o rest.nodes, adds |-> r.adds \cup rest.adds]

\* ast.NodeTransformer.generic_visit: visit every child statement in turn
\* (the other children hold no definition)
generic_visit(node) ==
    IF ~IsCompound(node) THEN [node |-> node, adds |-> {}]
    ELSE LET rs == visit_all(node.body)
         IN  [node |-> [node EXCEPT !.body = rs.nodes], adds |-> rs.adds]

\* visit_FunctionDef and visit_ClassDef; any other node is visited
\* generically
visit(node) ==
    IF node.k = "FunctionDef" THEN
        LET g == generic_visit(clean_function(node))
        IN  [node |-> g.node,
             adds |-> g.adds \cup {<<g.node.name, Unparse(g.node)>>}]
    ELSE IF node.k = "ClassDef" THEN
        LET g == generic_visit(clean_class(node))
        IN  [node |-> g.node,
             adds |-> g.adds \cup {<<g.node.name, Unparse(g.node)>>}]
    ELSE generic_visit(node)

(***************************************************************************)
(* ast.walk(tree) with transformer.visit on every node it yields.  A node  *)
(* is named by its path: the ordinals of the compound statements leading   *)
(* to it (cleaning removes only constant expressions, so these are stable).*)
(* Only nodes that hold statements are queued: visiting any other node     *)
(* reaches no definition.                                                  *)
(***************************************************************************)
CompoundPos(body) == {i \in 1..Len(body) : IsCompound(body[i])}

RECURSIVE NodeAt(_, _)
NodeAt(node, path) ==
    IF path = <<>> THEN node
    ELSE NodeAt(node.body[Kth(CompoundPos(node.body), path[1])], Tail(path))

RECURSIVE ReplaceAt(_, _, _)
ReplaceAt(node, path, new) ==
    IF path = <<>> THEN new
    ELSE LET i == Kth(CompoundPos(node.body), path[1])
         IN  [node EXCEPT !.body[i] = ReplaceAt(@, Tail(path), new)]

RECURSIVE walk(_, _, _)
\* queue: the paths still to yield, breadth first; a node's children are
\* queued when it is yielded, before it is visited
walk(tree, queue, adds) ==
    IF queue = <<>> THEN [tree |-> tree, adds |-> adds]
    ELSE LET path == Head(queue)
             node == NodeAt(tree, path)
             n == Cardinality(CompoundPos(node.body))
             RECURSIVE kids(_)
             kids(j) == IF j > n THEN <<>> ELSE <<path \o <<j>>>> \o kids(j + 1)
             children == kids(1)
             r == visit(node)
         IN  walk(ReplaceAt(tree, path, r.node), Tail(queue) \o children,
                  adds \cup r.adds)

\* what build_index files for one parsed file (lines 266-268)
FileEntries(tree) == walk(tree, <<<<>>>>, {}).adds

\* the object `tree` of line 266 once the loop of lines 267-268 is over: the
\* transformer works on the nodes of the tree it is given
TreeAfterWalk(tree) == walk(tree, <<<<>>>>, {}).tree

(***************************************************************************)
(* CallFinder, _get_call_tree and _get_args                                *)
(***************************************************************************)
\* a visit_Call that records the attribute of a member call too
visit_Call_members(node) ==
    IF node.func.k = "Name" THEN {node.func.id}
    ELSE IF node.func.k = "Attribute" THEN {node.func.attr}
    ELSE {}

\* CallFinder.visit_Call (lines 74-83): no generic_visit follows
visit_Call(node) == IF node.func.k = "Name" THEN {node.func.id} ELSE {}

RECURSIVE CallFinder_visit(_)
\* the names CallFinder adds to call_names when it visits node.  visit_Call
\* records a Name target and returns: it does not visit the call's
\* function or arguments.  Every other node is visited generically.
CallFinder_visit(node) ==
    CASE node.k = "Call" -> visit_Call(node)
      [] node.k = "FunctionDef" ->
           UNION {CallFinder_visit(node.args[i].annotation) : i \in 1..Len(node.args)}
             \cup UNION {CallFinder_visit(node.kwonlyargs[i].annotation) :
                           i \in 1..Len(node.kwonlyargs)}
             \cup UNION {CallFinder_visit(node.body[i]) : i \in 1..Len(node.body)}
      [] node.k \in {"ClassDef", "If", "Module"} ->
           UNION {CallFinder_visit(node.body[i]) : i \in 1..Len(node.body)}
      [] node.k \in {"Expr", "Return", "Attribute"} -> CallFinder_visit(node.value)
      [] OTHER -> {}

\* the set behind the list _get_call_tree returns
_get_call_tree(node) == CallFinder_visit(node)

\* the set behind the list _get_args returns; for a node that is no
\* FunctionDef it returns None, which get_dependencies reads as no names
_get_args(node) ==
    IF node.k # "FunctionDef" THEN {}
    ELSE {node.args[i].annotation.id :
            i \in {j \in 1..Len(node.args) : node.args[j].annotation.k = "Name"}}

(***************************************************************************)
(* The names and the files of the scanned trees                            *)
(***************************************************************************)
n_helper == <<"h","e","l","p","e","r">>
n_main == <<"m","a","i","n">>
n_shared == <<"s","h","a","r","e","d">>
n_Foo == <<"F","o","o">>
n_bar == <<"b","a","r">>
n_self == <<"s","e","l","f">>
n_f == <<"f">>
n_h == <<"h">>
n_k == <<"k">>
n_v == <<"v">>
n_s == <<"s">>
n_x == <<"x">>
n_y == <<"y">>
n_deep == <<"d","e","e","p">>
n_A == <<"A">>
n_stub == <<"s","t","u","b">>
n_use == <<"u","s","e">>
n_big == <<"b","i","g">>
n_usebig == <<"u","s","e","b","i","g">>
n_nope == <<"n","o","p","e">>
n_In == <<"I","n">>
n_outer == <<"o","u","t","e","r">>
n_inner == <<"i","n","n","e","r">>
n_Deep == <<"D","e","e","p">>
n_meth == <<"m","e","t","h">>
n_init == <<"_","_","i","n","i","t","_","_">>
n_enter == <<"_","_","e","n","t","e","r","_","_">>
n_exit == <<"_","_","e","x","i","t","_","_">>
n_str == <<"s","t","r">>
n_dict == <<"d","i","c","t">>
n_list == <<"l","i","s","t">>
n_int == <<"i","n","t">>
n_float == <<"f","l","o","a","t">>

\* _remove_common_syntax: the names taken out of the index after the walk
common_syntax ==
    {n_init, n_enter, n_exit, n_str, n_dict, n_list, n_int, n_float}

\* self.folders_to_ignore before the caller's folders are added
default_folders == << <<".","v","e","n","v">>,
                      <<".","m","y","p","y","_","c","a","c","h","e">> >>

\* x[:3000] in get_dependencies
MaxDepLen == 3000

One == Num(<<"1">>)

src_a == Module(<<
    FunctionDef(n_helper, <<>>, <<Return(One)>>),
    FunctionDef(n_main, <<>>, <<Return(Call(Name(n_helper), <<>>))>>),
    FunctionDef(n_shared, <<>>, <<Pass>>) >>)

src_b == Module(<<
    ClassDef(n_Foo, <<
        Expr(Str(<<"E","x","a","m","p","l","e",".">>)),
        FunctionDef(n_bar, <<Arg(n_self, NoAnn)>>,
                    <<Expr(Str(<<"B","a","r",".">>)), Pass>>),
        ClassDef(n_In, <<Expr(Str(<<"I","n","n","e","r",".">>)), Pass>>) >>),
    FunctionDef(n_f, <<>>, <<Expr(Str(<<"d","o","c">>))>>),
    FunctionDef(n_h, <<>>,
                <<Expr(Str(<<"H","d",".">>)), Expr(Ellipsis), Return(One)>>),
    FunctionDef(n_k, <<>>, <<Return(Call(Name(n_h), <<>>))>>) >>)

src_v == Module(<<
    FunctionDef(n_v, <<>>, <<Pass>>),
    FunctionDef(n_helper, <<>>, <<Return(Num(<<"2">>))>>) >>)

src_s == Module(<<
    FunctionDef(n_s, <<Arg(n_x, Name(n_Foo))>>,
                <<Return(Call(Name(n_v), <<>>))>>) >>)

src_d == Module(<<
    FunctionDef(n_shared, <<>>, <<Pass>>),
    FunctionDef(n_deep, <<>>,
        <<Return(Call(Name(n_helper), <<Call(Name(n_shared), <<One>>)>>))>>),
    FunctionDef(n_main, <<>>, <<Return(Call(Name(n_shared), <<>>))>>),
    FunctionDef(n_outer, <<>>, <<
        FunctionDef(n_inner, <<>>, <<
            ClassDef(n_Deep, <<
                FunctionDef(n_meth, <<Arg(n_self, NoAnn)>>,
                            <<Return(Call(Name(n_shared), <<>>))>>) >>),
            Return(Name(n_Deep)) >>),
        Return(Call(Name(n_inner), <<>>)) >>) >>)

src_g == Module(<<
    ClassDef(n_A, <<FunctionDef(n_init, <<Arg(n_self, NoAnn)>>, <<Pass>>)>>),
    FunctionDef(n_str, <<>>, <<Pass>>),
    FunctionDef(n_stub, <<Arg(n_x, Name(n_Foo))>>, <<Expr(Ellipsis)>>),
    FunctionDef(n_use, <<Arg(n_x, Name(n_int)), Arg(n_y, Name(n_Foo))>>,
                <<Return(Call(Name(n_str), <<>>))>>) >>)

\* a definition whose text is longer than MaxDepLen
src_big == Module(<<
    FunctionDef(n_big, <<>>, <<Return(Str(Repeat("a", MaxDepLen)))>>),
    FunctionDef(n_usebig, <<>>, <<Expr(Call(Name(n_helper), <<>>)),
                                  Return(Call(Name(n_big), <<>>))>>) >>)

\* text that ast.parse rejects
broken_text == <<"d","e","f"," ","b","r","o","k","e","n","(",":">>

dot_py == <<".","p","y">>
root_dir == <<".">>
dir_venv == <<".","/",".","v","e","n","v">>
dir_skipper == <<".","/","s","k","i","p","p","e","r">>
dir_pkg == <<".","/","p","k","g">>

File(root, file, text) == [root |-> root, file |-> file, text |-> text]

FileIds == {"a", "b", "c", "v", "s", "d", "g", "big", "notes"}

\* the files whose text is broken_text
Broken == {"c", "notes"}

\* the tree a file's text is written from
SourceTree(f) ==
    CASE f = "a" -> src_a
      [] f = "b" -> src_b
      [] f = "v" -> src_v
      [] f = "s" -> src_s
      [] f = "d" -> src_d
      [] f = "g" -> src_g
      [] f = "big" -> src_big

\* the directory os.walk reports a file in
RootOf(f) ==
    CASE f = "v" -> dir_venv
      [] f = "s" -> dir_skipper
      [] f = "d" -> dir_pkg
      [] OTHER -> root_dir

FileName(f) ==
    CASE f = "big" -> <<"b","i","g">> \o dot_py
      [] f = "notes" -> <<"n","o","t","e","s",".","t","x","t">>
      [] OTHER -> <<f>> \o dot_py

\* the files a scanned tree is made of
FS(f) ==
    File(RootOf(f), FileName(f),
         IF f \in Broken THEN broken_text ELSE Unparse(SourceTree(f)))

\* the folders_to_ignore a caller may pass: None, or ["skip"]
FolderArgs == { <<>>, << <<"s","k","i","p">> >> }

\* names a caller asks for that need not be in the index
ProbeNames == {n_nope, n_init}

\* at most this many files in a scanned tree
MaxFiles == 2

(***************************************************************************)
(* State                                                                   *)
(***************************************************************************)
VARIABLES
    files,              \* the files under root_dir
    folders_arg,        \* the folders_to_ignore argument of NodeIndexer
    folders_to_ignore,  \* NodeIndexer.folders_to_ignore
    index,              \* NodeIndexer.index: name -> set of source texts
    visited,            \* the files build_index has gone past
    phase,              \* "new", "walking", "built", "failed"
    result,             \* what the last lookup returned or raised
    cache,              \* the file .pythion/doc_cache.json
    run                 \* the DocManager method under way, with its locals

vars == <<files, folders_arg, folders_to_ignore, index, visited, phase, result,
          cache, run>>

\* no cache file yet
Absent == [k |-> "absent"]

\* the cache file with the list json.dump wrote to it
CacheFile(content) == [k |-> "file", content |-> content]

\* no method of DocManager has been called
IdleRun == [op |-> "idle", pc |-> "idle"]

NoResult == [op |-> "none", name |-> <<>>, out |-> "none", rep |-> <<>>, val |-> <<>>]

EmptyIndex == [k \in {} |-> {}]

Init ==
    /\ files \in {F \in SUBSET FileIds : Cardinality(F) <= MaxFiles}
    /\ folders_arg \in FolderArgs
    /\ folders_to_ignore = <<>>
    /\ index = EmptyIndex
    /\ visited = {}
    /\ phase = "new"
    /\ result = NoResult
    /\ cache = Absent
    /\ run = IdleRun

(***************************************************************************)
(* NodeIndexer.__init__ up to the call of build_index (lines 232-236)      *)
(***************************************************************************)
\* a folders_to_ignore that would hold the caller's folders alone
ReplaceFolders(defaults, extra) == IF extra = <<>> THEN defaults ELSE extra

\* self.folders_to_ignore.extend(folders_to_ignore), when folders are given
ExtendFolders(defaults, extra) == defaults \o extra

NodeIndexer_init ==
    /\ phase = "new"
    /\ index' = EmptyIndex
    /\ folders_to_ignore' = ExtendFolders(default_folders, folders_arg)
    /\ phase' = "walking"
    /\ UNCHANGED <<files, folders_arg, visited, result, cache, run>>

(***************************************************************************)
(* build_index: one file of the walk (lines 257-268)                       *)
(***************************************************************************)
\* `for ext in self.folders_to_ignore: if ext in root: break`
IsIgnored(root, folders) ==
    \E i \in 1..Len(folders) : Contains(root, folders[i])

\* an insertion that would put the new texts in the place of the old ones
ReplaceInIndex(idx, adds) ==
    [k \in DOMAIN idx \cup {a[1] : a \in adds} |->
        IF k \in {a[1] : a \in adds}
        THEN {a[2] : a \in {b \in adds : b[1] = k}}
        ELSE idx[k]]

\* self.index[node.name].add(node_in_text) for every pair of adds
AddToIndex(idx, adds) ==
    [k \in DOMAIN idx \cup {a[1] : a \in adds} |->
        (IF k \in DOMAIN idx THEN idx[k] ELSE {})
          \cup {a[2] : a \in {b \in adds : b[1] = k}}]

\* os.walk is top-down: a directory's files come before those of the
\* directories below it
IsBelow(root, top) == StartsWith(root, top \o <<"/">>)

\* lines 266-268 for a file that is read: tree is Failed where ast.parse
\* raises SyntaxError, which leaves build_index and __init__
IndexTree(tree) ==
    IF ~tree.ok
    THEN /\ phase' = "failed"
         /\ UNCHANGED index
    ELSE /\ index' = AddToIndex(index, FileEntries(tree.v))
         /\ UNCHANGED phase

\* lines 257-268 for one file of the walk
IndexFile(file) ==
    IF IsIgnored(file.root, folders_to_ignore) \/ ~EndsWith(file.file, dot_py)
    THEN UNCHANGED <<index, phase>>
    ELSE IndexTree(Parse(file.text))

VisitFile(f) ==
    /\ phase = "walking"
    /\ f \in files \ visited
    /\ \A g \in files \ visited : ~IsBelow(RootOf(f), RootOf(g))
    /\ visited' = visited \cup {f}
    /\ IndexFile(FS(f))
    /\ UNCHANGED <<files, folders_arg, folders_to_ignore, result, cache, run>>

\* self.index.pop(syntax, None) for every common name
_remove_common_syntax(idx) == [k \in DOMAIN idx \ common_syntax |-> idx[k]]

\* the walk is over: _remove_common_syntax (line 269), then warn (line 238),
\* which only prints
FinishBuild ==
    /\ phase = "walking"
    /\ visited = files
    /\ index' = _remove_common_syntax(index)
    /\ phase' = "built"
    /\ UNCHANGED <<files, folders_arg, folders_to_ignore, visited, result, cache, run>>

(***************************************************************************)
(* The object a caller holds                                               *)
(***************************************************************************)
\* NodeIndexer.__init__ calls build_index and warn before it returns (lines
\* 237-238), and DocManager.__init__ builds its indexer the same way
\* (doc_writer.py lines 51-53): a caller has the object, and can call its
\* methods, once the build is over
IsConstructed(ph) == ph = "built"

(***************************************************************************)
(* NodeIndexer.get_dependencies (lines 342-355)                            *)
(***************************************************************************)
\* the lists a set can be read out as (list(a_set): any order)
ListsOf(S) ==
    {l \in [1..Cardinality(S) -> S] : \A i, j \in 1..Cardinality(S) : l[i] = l[j] => i = j}

RECURSIVE Flatten(_)
Flatten(ls) == IF ls = <<>> THEN <<>> ELSE Head(ls) \o Flatten(Tail(ls))

\* an element handed back whole
Untruncated(x) == x

\* x[:3000]
Truncate(x) == Take(x, MaxDepLen)

RECURSIVE TruncateAll(_)
TruncateAll(xs) ==
    IF xs = <<>> THEN <<>> ELSE <<Truncate(Head(xs))>> \o TruncateAll(Tail(xs))

\* the lists `dependencies` can end as for the definition node: for dep in
\* chain(call_names, arg_types or []), the entries of index[dep] if dep is
\* a key
DependencyLists(idx, node) ==
    LET calls == {d \in _get_call_tree(node) : d \in DOMAIN idx}
        types == {d \in _get_args(node) : d \in DOMAIN idx}
        \* the entries of each name of the list names, each in some order
        Entries(names) ==
            {Flatten(e) : e \in {e \in [1..Len(names) -> UNION {ListsOf(idx[d]) : d \in DOMAIN idx}] :
                                    \A i \in 1..Len(names) : e[i] \in ListsOf(idx[names[i]])}}
    IN  UNION {Entries(c \o t) : c \in ListsOf(calls), t \in ListsOf(types)}

Returned(op, name, out, rep, val) ==
    [op |-> op, name |-> name, out |-> out, rep |-> rep, val |-> val]

\* lines 345-355 for the entry rep that list(func)[0] picked, parsed as tree
DependenciesOf(name, rep, tree) ==
    IF ~tree.ok \/ tree.v.body = <<>>
    THEN \* ast.parse raises SyntaxError (or node.body[0] IndexError)
         result' = Returned("get_dependencies", name, "raise", rep, <<>>)
    ELSE \E deps \in DependencyLists(index, tree.v.body[1]) :
           result' = Returned("get_dependencies", name, "list", rep,
                              TruncateAll(deps))

get_dependencies(name) ==
    /\ IsConstructed(phase)
    /\ IF name \notin DOMAIN index \/ index[name] = {}
       THEN \* `if not func: return None`
            result' = Returned("get_dependencies", name, "None", <<>>, <<>>)
       ELSE \E rep \in index[name] : DependenciesOf(name, rep, Parse(rep))
    /\ UNCHANGED <<files, folders_arg, folders_to_ignore, index, visited, phase, cache, run>>

(***************************************************************************)
(* DocManager._get_source_code_from_name (doc_writer.py lines 371-385)     *)
(***************************************************************************)
\* self.indexer.index[obj_name] on a defaultdict(set): reading a missing
\* key stores an empty set under it
defaultdict_getitem(idx, key) ==
    IF key \in DOMAIN idx THEN idx
    ELSE [k \in DOMAIN idx \cup {key} |-> IF k = key THEN {} ELSE idx[k]]

_get_source_code_from_name(name) ==
    /\ IsConstructed(phase)
    /\ index' = defaultdict_getitem(index, name)
    /\ IF index'[name] = {}
       THEN result' = Returned("_get_source_code_from_name", name, "None", <<>>, <<>>)
       ELSE IF Cardinality(index'[name]) > 1
       THEN \* item.location of an entry that is a str: AttributeError
            result' = Returned("_get_source_code_from_name", name, "raise", <<>>, <<>>)
       ELSE \E e \in index'[name] :
              result' = Returned("_get_source_code_from_name", name, "entry", e, <<>>)
    /\ UNCHANGED <<files, folders_arg, folders_to_ignore, visited, phase, cache, run>>

(***************************************************************************)
(* DocManager.build_doc_cache (doc_writer.py lines 86-137)                 *)
(***************************************************************************)
\* the entries the loop of lines 93-101 goes through
AllEntries(idx) == UNION {idx[k] : k \in DOMAIN idx}

\* An entry is a str (indexer.py line 177): reading v.has_docstring, or
\* v.source_code when use_all is set, raises AttributeError at the first
\* entry.  With no entry the queue is empty, no task is submitted to the
\* pool and, unless the run is dry, the empty list is saved.
build_doc_cache(use_all, dry) ==
    /\ IsConstructed(phase)
    /\ result' = [op |-> "build_doc_cache", name |-> <<>>, rep |-> <<>>,
                  out |-> IF AllEntries(index) # {} THEN "raise" ELSE "done",
                  val |-> <<>>, use_all |-> use_all, dry |-> dry]
    /\ cache' = IF AllEntries(index) = {} /\ ~dry THEN CacheFile(<<>>) ELSE cache
    /\ UNCHANGED <<files, folders_arg, folders_to_ignore, index, visited, phase, run>>

LookupNames == DOMAIN index \cup ProbeNames

Next ==
    \/ NodeIndexer_init
    \/ \E f \in FileIds : VisitFile(f)
    \/ FinishBuild
    \/ \E name \in LookupNames : get_dependencies(name)
    \/ \E name \in LookupNames : _get_source_code_from_name(name)
    \/ \E use_all \in BOOLEAN, dry \in BOOLEAN : build_doc_cache(use_all, dry)

Spec == Init /\ [][Next]_vars

(***************************************************************************)
(* file_handler.py and models/: the location resolver and SourceCode       *)
(***************************************************************************)
\* os.path.join(root, file) of a file of the pool
PathOf(f) == RootOf(f) \o <<"/">> \o FileName(f)

\* a path no file of the pool has
missing_path == <<"g","o","n","e",".","p","y">>

\* the files find_object_location is asked to read
LocateFiles == {"a", "b", "c", "d", "g"}

Paths == {PathOf(f) : f \in LocateFiles} \cup {missing_path}

\* the text open(file_path) reads, in a set that is empty when no file is there
Disk == {<<PathOf(f), FS(f).text>> : f \in LocateFiles}

FileAt(path) == {d[2] : d \in {e \in Disk : e[1] = path}}

\* rf.readlines(): each line with the "\n" that ends it
RECURSIVE KeepEnds(_, _)
KeepEnds(parts, i) ==
    IF i > Len(parts) THEN <<>>
    ELSE IF i = Len(parts)
         THEN (IF parts[i] = <<>> THEN <<>> ELSE <<parts[i]>>)
         ELSE <<parts[i] \o NL>> \o KeepEnds(parts, i + 1)

readlines(text) == KeepEnds(SplitLines(text), 1)

\* file_handler.py lines 15-21
item_to_find(obj_name, obj_type) ==
    IF obj_type = "function" THEN KwDef \o obj_name ELSE KwClass \o obj_name

\* lines 23-26: enumerate(lines, 1); 0 stands for falling out of the loop
RECURSIVE ScanFrom(_, _, _)
ScanFrom(lines, item, idx) ==
    IF idx > Len(lines) THEN 0
    ELSE IF Contains(lines[idx], item) THEN idx
    ELSE ScanFrom(lines, item, idx + 1)

ObjectLocation(name, file_path, row) ==
    [k |-> "ObjectLocation", name |-> name, file_path |-> file_path, row |-> row]

None == [k |-> "None"]

Raised(exc) == [k |-> "raise", exc |-> exc]

LocationAt(obj_name, file_path, row) ==
    IF row = 0 THEN None ELSE ObjectLocation(obj_name, file_path, row)

\* C15 mutant: the row counted from 0
find_object_location_from0(file_path, obj_name, obj_type) ==
    IF FileAt(file_path) = {} THEN Raised("FileNotFoundError")
    ELSE IF obj_type \notin {"function", "class"} THEN Raised("TypeError")
    ELSE LET row == ScanFrom(readlines(CHOOSE t \in FileAt(file_path) : TRUE),
                             item_to_find(obj_name, obj_type), 1)
         IN  IF row = 0 THEN None ELSE ObjectLocation(obj_name, file_path, row - 1)

\* file_handler.py lines 10-26
find_object_location(file_path, obj_name, obj_type) ==
    IF FileAt(file_path) = {} THEN Raised("FileNotFoundError")
    ELSE IF obj_type \notin {"function", "class"} THEN Raised("TypeError")
    ELSE LocationAt(obj_name, file_path,
                    ScanFrom(readlines(CHOOSE t \in FileAt(file_path) : TRUE),
                             item_to_find(obj_name, obj_type), 1))

\* str(n) of a natural number
RECURSIVE Decimal(_)
Decimal(n) ==
    IF n < 10 THEN <<<<"0","1","2","3","4","5","6","7","8","9">>[n + 1]>>
    ELSE Decimal(n \div 10) \o Decimal(n % 10)

\* os.getcwd()
cwd == <<"/","w">>

\* os.path.join(a, b) for a without a trailing separator
path_join(a, b) == IF b # <<>> /\ b[1] = "/" THEN b ELSE a \o <<"/">> \o b

\* location_models.py lines 12-20
vscode_link(loc) ==
    <<"[","l","i","n","k","=","v","s","c","o","d","e",":","/","/","f","i","l","e","/","/">>
      \o path_join(cwd, loc.file_path) \o <<":">> \o Decimal(loc.row) \o <<"]">>
      \o loc.file_path \o <<":">> \o loc.name \o <<"[","/","l","i","n","k","]">>

SourceCode(object_name, object_type, file_path, source_code, has_docstring) ==
    [k |-> "SourceCode", object_name |-> object_name, object_type |-> object_type,
     file_path |-> file_path, source_code |-> source_code,
     has_docstring |-> has_docstring]

\* C16 mutant: loc.vscode_link without the `if not loc` test
LinkOf_unchecked(loc) ==
    IF loc.k = "raise" THEN loc
    ELSE IF loc.k = "None" THEN Raised("AttributeError")
    ELSE [k |-> "str", v |-> vscode_link(loc)]

\* core_models.py lines 34-36
LinkOf(loc) ==
    IF loc.k = "raise" THEN loc
    ELSE IF loc.k = "None" THEN None
    ELSE [k |-> "str", v |-> vscode_link(loc)]

\* core_models.py lines 20-36
SourceCode_location(self) ==
    LinkOf(find_object_location(self.file_path, self.object_name, self.object_type))

\* core_models.py lines 46-47
SourceCode__repr__(self) ==
    self.file_path \o <<":">> \o self.object_name \o <<":">> \o self.source_code

\* the characters hash_str tells apart, in code order
Alphabet == <<":", "a", "b", "c", "d">>

Ord(c) == CHOOSE i \in 1..Len(Alphabet) : Alphabet[i] = c

\* hash() of a str: the value changes with the interpreter's seed, within
\* one process it is a function of the characters
RECURSIVE hash_str(_)
hash_str(s) ==
    IF s = <<>> THEN 0
    ELSE (hash_str(SubSeq(s, 1, Len(s) - 1)) * 31 + Ord(s[Len(s)])) % 1000003

\* core_models.py lines 43-44
SourceCode__hash__(self) == hash_str(SourceCode__repr__(self))

\* core_models.py lines 38-41
SourceCode__eq__(self, value) ==
    IF value.k # "SourceCode" THEN FALSE
    ELSE SourceCode__repr__(self) = SourceCode__repr__(value)

n_obj == <<"o","b","j">>
n_foo == <<"f","o","o">>
n_m == <<"m">>
n_w == <<"w">>
n_u == <<"u">>

\* def w(x): return obj.m(bar(x))
def_w ==
    FunctionDef(n_w, <<Arg(n_x, NoAnn)>>,
        <<Return(Call(Attribute(Name(n_obj), n_m),
                      <<Call(Name(n_bar), <<Name(n_x)>>)>>))>>)

\* def u(x): obj.foo(x); helper()(); bar(x); return bar(1)
def_u ==
    FunctionDef(n_u, <<Arg(n_x, NoAnn)>>,
        <<Expr(Call(Attribute(Name(n_obj), n_foo), <<Name(n_x)>>)),
          Expr(Call(Call(Name(n_helper), <<>>), <<>>)),
          Expr(Call(Name(n_bar), <<Name(n_x)>>)),
          Return(Call(Name(n_bar), <<One>>))>>)

\* the definitions _get_call_tree is tried on: deep, outer, Foo, use, w, u
CallNodes == {src_d.body[2], src_d.body[4], src_b.body[1], src_g.body[4], def_w, def_u}

n_kw == <<"k","w">>
n_at == <<"a","t">>
n_z == <<"z">>
n_o == <<"o">>
n_i == <<"i">>

\* def kw(x: int, *, y: Foo): pass
def_kw ==
    FunctionDefKw(n_kw, <<Arg(n_x, Name(n_int))>>, <<Arg(n_y, Name(n_Foo))>>, <<Pass>>)

\* def at(x: obj.Foo, y: Foo, z: Foo): pass
def_at ==
    FunctionDef(n_at, <<Arg(n_x, Attribute(Name(n_obj), n_Foo)), Arg(n_y, Name(n_Foo)),
                        Arg(n_z, Name(n_Foo))>>, <<Pass>>)

\* def o(x: int): def i(y: Foo): pass
def_o ==
    FunctionDef(n_o, <<Arg(n_x, Name(n_int))>>,
        <<FunctionDef(n_i, <<Arg(n_y, Name(n_Foo))>>, <<Pass>>)>>)

\* class A: def m(self, x: Foo): pass
class_m ==
    ClassDef(n_A, <<FunctionDef(n_m, <<Arg(n_self, NoAnn), Arg(n_x, Name(n_Foo))>>,
                                <<Pass>>)>>)

\* the definitions _get_args is tried on: use, helper and the four above
ArgNodes == {src_g.body[4], src_a.body[1], def_kw, def_at, def_o, class_m}

\* def k(): 1; return 1
def_number == FunctionDef(n_k, <<>>, <<Expr(One), Return(One)>>)

\* class A: ...
class_stub == ClassDef(n_A, <<Expr(Ellipsis)>>)

\* the definitions the transformer's cleaning is tried on: helper, Foo, f,
\* h, stub and the two above
CleanNodes ==
    {src_a.body[1], src_b.body[1], src_b.body[2], src_b.body[3], src_g.body[3],
     def_number, class_stub}

\* the records the comparisons are tried on
Records ==
    {SourceCode(n, "function", f, t, h) :
        n \in {<<"b">>, <<"b",":","c">>},
        f \in {<<"a">>, <<"a",":","b">>},
        t \in {<<"c",":","d">>, <<"d">>},
        h \in BOOLEAN}

\* values compared with a record: another record, or a str
Values == Records \cup {[k |-> "str", v |-> <<"a",":","b",":","d">>]}

\* the names and kinds find_object_location is asked for
LocateNames == {n_helper, n_s, n_Foo, n_In, n_nope}

LocateTypes == {"function", "class", "method"}

\* the records location is read from
Located ==
    {SourceCode(n, t, p, <<>>, FALSE) :
        n \in LocateNames, t \in {"function", "class"}, p \in Paths}

\* a == b together with hash(a), hash(b), as the index's set does
Compare(a, b) ==
    /\ result' = [op |-> "__eq__", a |-> a, b |-> b,
                  out |-> SourceCode__eq__(a, b),
                  hash_a |-> SourceCode__hash__(a),
                  hash_b |-> IF b.k = "SourceCode" THEN SourceCode__hash__(b) ELSE 0]
    /\ UNCHANGED <<files, folders_arg, folders_to_ignore, index, visited, phase, cache, run>>

Locate(file_path, obj_name, obj_type) ==
    /\ result' = [op |-> "find_object_location", file_path |-> file_path,
                  obj_name |-> obj_name, obj_type |-> obj_type,
                  out |-> find_object_location(file_path, obj_name, obj_type)]
    /\ UNCHANGED <<files, folders_arg, folders_to_ignore, index, visited, phase, cache, run>>

ReadLocation(self) ==
    /\ result' = [op |-> "location", self |-> self, out |-> SourceCode_location(self)]
    /\ UNCHANGED <<files, folders_arg, folders_to_ignore, index, visited, phase, cache, run>>

\* indexer.py lines 304-307: list(call_names), in any order
CollectCalls(node) ==
    /\ \E names \in ListsOf(_get_call_tree(node)) :
         result' = [op |-> "_get_call_tree", node |-> node, out |-> names]
    /\ UNCHANGED <<files, folders_arg, folders_to_ignore, index, visited, phase, cache, run>>

\* indexer.py lines 349-351: `arg_types or []` for the list, in any
\* order, or the None that _get_args returns
CollectArgs(node) ==
    /\ \E names \in ListsOf(_get_args(node)) :
         result' = [op |-> "_get_args", node |-> node, out |-> names]
    /\ UNCHANGED <<files, folders_arg, folders_to_ignore, index, visited, phase, cache, run>>

\* the trees the walk is tried on: a.py, b.py, d.py, g.py as parsed
WalkTrees == {src_a, src_b, src_d, src_g}

\* indexer.py lines 266-268 on a parsed file: the tree before and after
WalkTree(tree) ==
    /\ result' = [op |-> "walk", tree |-> tree, after |-> TreeAfterWalk(tree)]
    /\ UNCHANGED <<files, folders_arg, folders_to_ignore, index, visited, phase, cache, run>>

\* what visit_FunctionDef (line 174) and visit_ClassDef (line 192) do
\* first; each of the two leaves a node of the other class as it is
Cleaned(node) == clean_class(clean_function(node))

\* the cleaning of node, and of its outcome once more
Clean(node) ==
    /\ result' = [op |-> "clean", node |-> node, out |-> Cleaned(node),
                  again |-> Cleaned(Cleaned(node))]
    /\ UNCHANGED <<files, folders_arg, folders_to_ignore, index, visited, phase, cache, run>>

\* every file of the pool is on disk; no indexer is built
InitModels ==
    /\ files = FileIds
    /\ folders_arg = <<>>
    /\ folders_to_ignore = <<>>
    /\ index = EmptyIndex
    /\ visited = {}
    /\ phase = "new"
    /\ result = NoResult
    /\ cache = Absent
    /\ run = IdleRun

NextModels ==
    \/ \E a \in Records, b \in Values : Compare(a, b)
    \/ \E p \in Paths, n \in LocateNames, t \in LocateTypes : Locate(p, n, t)
    \/ \E r \in Located : ReadLocation(r)
    \/ \E node \in CallNodes : CollectCalls(node)
    \/ \E node \in CleanNodes : Clean(node)
    \/ \E node \in ArgNodes : CollectArgs(node)
    \/ \E tree \in WalkTrees : WalkTree(tree)

SpecModels == InitModels /\ [][NextModels]_vars

(***************************************************************************)
(* DocManager.iter_docs on the cache file, in a run of the command line    *)
(* that has built its index (doc_writer.py lines 139-201)                  *)
(***************************************************************************)
\* doc_writer.py line 355: a pydantic model with the fields doc_string and source
SourceDoc(doc_string, source) ==
    [k |-> "SourceDoc", doc_string |-> doc_string, source |-> source]

\* x.model_dump(): the nested dict json.dump writes
model_dump(x) ==
    [doc_string |-> x.doc_string,
     source |-> [object_name |-> x.source.object_name,
                 object_type |-> x.source.object_type,
                 file_path |-> x.source.file_path,
                 source_code |-> x.source.source_code,
                 has_docstring |-> x.source.has_docstring]]

\* SourceDoc.model_validate(x) on a dict json.load read
model_validate(x) ==
    SourceDoc(x.doc_string,
              SourceCode(x.source.object_name, x.source.object_type,
                         x.source.file_path, x.source.source_code,
                         x.source.has_docstring))

\* [SourceDoc.model_validate(x) for x in content]
ValidateAll(content) == [i \in 1..Len(content) |-> model_validate(content[i])]

\* a cache file open(path, "w") has emptied and nothing was written to
EmptyFile == [k |-> "empty"]

\* doc_writer.py lines 198-201: the file is opened for writing, then each entry
\* is dumped; an entry that is no model (None) raises with the file left empty
_save_doc_cache(save_results) ==
    IF \A i \in 1..Len(save_results) : save_results[i].k = "SourceDoc"
    THEN CacheFile([i \in 1..Len(save_results) |-> model_dump(save_results[i])])
    ELSE EmptyFile

n_skip == <<"s","k","i","p">>

\* the symbols the entries of a cache file on disk are about
sc_helper ==
    SourceCode(n_helper, "function", PathOf("a"),
               <<"d","e","f"," ","h","e","l","p","e","r","(",")",":","\n",
                 " "," "," "," ","r","e","t","u","r","n"," ","1">>, FALSE)
sc_Foo ==
    SourceCode(n_Foo, "class", PathOf("b"),
               <<"c","l","a","s","s"," ","F","o","o",":","\n"," "," "," ",
                 " ","p","a","s","s">>, TRUE)
sc_skip ==
    SourceCode(n_skip, "function", PathOf("a"),
               <<"d","e","f"," ","s","k","i","p","(",")",":","\n"," "," ",
                 " "," ","r","e","t","u","r","n"," ","1">>, FALSE)
sc_gone ==
    SourceCode(n_nope, "function", missing_path,
               <<"d","e","f"," ","n","o","p","e","(",")",":","\n"," "," ",
                 " "," ","p","a","s","s">>, FALSE)

\* the doc_string of an entry on disk
doc_text == <<"\"","\"","\"","\n","D","o","c",".","\n","\"","\"","\"">>

CachedDoc(v) == SourceDoc(doc_text, v)

\* the file .pythion/doc_cache.json as the run finds it on disk
Caches ==
    {Absent, _save_doc_cache(<<>>),
     _save_doc_cache(<<CachedDoc(sc_Foo)>>),
     _save_doc_cache(<<CachedDoc(sc_helper), CachedDoc(sc_Foo)>>),
     _save_doc_cache(<<CachedDoc(sc_Foo), CachedDoc(sc_gone), CachedDoc(sc_helper)>>),
     _save_doc_cache(<<CachedDoc(sc_helper), CachedDoc(sc_Foo), CachedDoc(sc_skip)>>)}

UpperCase == <<"A","B","C","D","E","F","G","H","I","J","K","L","M","N","O","P","Q","R","S","T","U","V","W","X","Y","Z">>
LowerCase == <<"a","b","c","d","e","f","g","h","i","j","k","l","m","n","o","p","q","r","s","t","u","v","w","x","y","z">>

\* do_pop.lower()
str_lower(s) ==
    [i \in 1..Len(s) |->
        IF \E j \in 1..26 : UpperCase[j] = s[i]
        THEN LowerCase[CHOOSE j \in 1..26 : UpperCase[j] = s[i]]
        ELSE s[i]]

\* what the user may type at the prompt
Answers == {<<"Y">>, <<"N">>, <<"n">>, <<"E","X","I","T">>, <<"e","x","i","t">>, <<"n","o">>, <<>>}

\* C23 mutant: results[idx + 1:], the current entry left out
RestAfter(results, idx) == SubSeq(results, idx + 1, Len(results))

\* doc_writer.py line 174: results[idx:], with idx counted from 1 here
RestFrom(results, idx) == SubSeq(results, idx, Len(results))

\* doc_writer.py lines 167-169: the print that reads result.source.location
\* before the prompt; FileNotFoundError leaves iter_docs at once
ShowsEntry(results, idx) == SourceCode_location(results[idx].source).k # "raise"

\* doc_writer.py lines 165-183 from the top of the loop at entry idx: the
\* loop is over and save_results is saved, or the next prompt is reached
AtEntry(r, idx, save_results, over) ==
    IF over \/ idx > Len(r.results)
    THEN /\ run' = [r EXCEPT !.pc = "done", !.idx = idx, !.save_results = save_results]
         /\ cache' = _save_doc_cache(save_results)
    ELSE IF ~ShowsEntry(r.results, idx)
    THEN /\ run' = [r EXCEPT !.pc = "raise", !.idx = idx, !.save_results = save_results]
         /\ UNCHANGED cache
    ELSE /\ run' = [r EXCEPT !.pc = "ask", !.idx = idx, !.save_results = save_results]
         /\ UNCHANGED cache

\* doc_writer.py lines 152-169: the cache is loaded and the first prompt shown
iter_docs_load ==
    /\ IsConstructed(phase)
    /\ run = IdleRun
    /\ IF cache.k # "file"
       THEN /\ run' = [op |-> "iter_docs", pc |-> "raise", results |-> <<>>, idx |-> 1,
                       answers |-> <<>>, save_results |-> <<>>]
            /\ UNCHANGED cache
       ELSE AtEntry([op |-> "iter_docs", pc |-> "ask",
                     results |-> ValidateAll(cache.content), idx |-> 1,
                     answers |-> <<>>, save_results |-> <<>>],
                    1, <<>>, FALSE)
    /\ UNCHANGED <<files, folders_arg, folders_to_ignore, index, visited, phase, result>>

\* doc_writer.py lines 170-183: input() returns do_pop for the entry shown
iter_docs_answer(do_pop) ==
    /\ run.op = "iter_docs" /\ run.pc = "ask"
    /\ LET r == [run EXCEPT !.answers = Append(run.answers, do_pop)]
       IN  IF Contains(str_lower(do_pop), <<"e","x","i","t">>)
           THEN AtEntry(r, run.idx, run.save_results \o RestFrom(run.results, run.idx), TRUE)
           ELSE IF Contains(str_lower(do_pop), <<"n">>)
           THEN AtEntry(r, run.idx + 1, Append(run.save_results, run.results[run.idx]), FALSE)
           ELSE AtEntry(r, run.idx + 1, run.save_results, FALSE)
    /\ UNCHANGED <<files, folders_arg, folders_to_ignore, index, visited, phase, result>>

\* the trees the runs of the command line are started in
DocTrees == {{"a", "b"}, {"a", "b", "g"}, {"a", "b", "d", "g"}}

\* DocManager(root_dir=root_dir) is about to be called (__init__.py lines 50,
\* 81, 101): its NodeIndexer is built first, then one of its methods runs
InitDocs ==
    /\ files \in DocTrees
    /\ folders_arg = <<>>
    /\ folders_to_ignore = <<>>
    /\ index = EmptyIndex
    /\ visited = {}
    /\ phase = "new"
    /\ result = NoResult
    /\ cache \in Caches
    /\ run = IdleRun

NextDocs ==
    \/ NodeIndexer_init
    \/ \E f \in FileIds : VisitFile(f)
    \/ FinishBuild
    \/ \E use_all \in BOOLEAN, dry \in BOOLEAN :
         run.pc # "ask" /\ build_doc_cache(use_all, dry)
    \/ iter_docs_load
    \/ \E do_pop \in Answers : iter_docs_answer(do_pop)

SpecDocs == InitDocs /\ [][NextDocs]_vars

(***************************************************************************)
(* What the properties below speak of: the definitions written in the      *)
(* files, and the identifiers a definition depends on                      *)
(***************************************************************************)
RECURSIVE DefNames(_)
\* the names of the function and class definitions in node, nested ones too
DefNames(node) ==
    IF ~IsCompound(node) THEN {}
    ELSE (IF IsDef(node) THEN {node.name} ELSE {})
           \cup UNION {DefNames(node.body[i]) : i \in 1..Len(node.body)}

RECURSIVE DefCount(_, _)
RECURSIVE DefCountIn(_, _)
\* how many definitions in node are named n
DefCount(node, n) ==
    IF ~IsCompound(node) THEN 0
    ELSE (IF IsDef(node) /\ node.name = n THEN 1 ELSE 0) + DefCountIn(node.body, n)

DefCountIn(body, n) ==
    IF body = <<>> THEN 0 ELSE DefCount(Head(body), n) + DefCountIn(Tail(body), n)

\* the elements of a list
Range(l) == {l[i] : i \in 1..Len(l)}

RECURSIVE CallTargets(_)
\* the bare names called anywhere in node, inside the arguments and the
\* function expression of another call too
CallTargets(node) ==
    CASE node.k = "Call" ->
           (IF node.func.k = "Name" THEN {node.func.id} ELSE {})
             \cup CallTargets(node.func)
             \cup UNION {CallTargets(node.args[i]) : i \in 1..Len(node.args)}
      [] node.k \in {"FunctionDef", "ClassDef", "If", "Module"} ->
           UNION {CallTargets(node.body[i]) : i \in 1..Len(node.body)}
      [] node.k \in {"Expr", "Return", "Attribute"} -> CallTargets(node.value)
      [] OTHER -> {}

\* the bare names that annotate the parameters of a function definition
BareAnnotations(node) ==
    IF node.k # "FunctionDef" THEN {}
    ELSE {a.annotation.id :
            a \in {p \in Range(node.args) \cup Range(node.kwonlyargs) :
                     p.annotation.k = "Name"}}

\* the index keys a definition depends on
DependencyKeys(node) == (CallTargets(node) \cup BareAnnotations(node)) \cap DOMAIN index

DefinitionOr(parsed, text) == IF parsed.ok THEN parsed.v.body[1] ELSE ParseHeader(text).v

\* the definition a stored text stands for; a text that is only a header
\* line stands for the definition with no statement
StoredDefinition(text) == DefinitionOr(Parse(text), text)

EntriesUnder(name) == IF name \in DOMAIN index THEN index[name] ELSE {}

\* the ignored-folder markers: the defaults and every folder of the caller
Markers ==
    {default_folders[i] : i \in 1..Len(default_folders)}
      \cup {folders_arg[i] : i \in 1..Len(folders_arg)}

\* f is a Python file whose directory path contains no marker
Scanned(f) ==
    /\ EndsWith(FileName(f), dot_py)
    /\ \A m \in Markers : ~Contains(RootOf(f), m)

\* f is a Python file whose directory path contains a marker
Ignored(f) ==
    /\ EndsWith(FileName(f), dot_py)
    /\ \E m \in Markers : Contains(RootOf(f), m)

\* the definitions of the scanned files of the tree that are named n
Occurrences(n) ==
    {f \in files : Scanned(f) /\ f \notin Broken /\ n \in DefNames(SourceTree(f))}

(***************************************************************************)
(* Properties                                                              *)
(***************************************************************************)
\* C1: get_dependencies(name) returns None for every name that is not a key
\* of the index, and the empty list for every indexed name whose
\* representative definition has no call target and no parameter annotation
\* that is an index key.
C1_NotFoundOrEmptyList ==
    result.op = "get_dependencies" =>
      /\ result.name \notin DOMAIN index => result.out = "None"
      /\ (/\ result.rep \in EntriesUnder(result.name)
          /\ DependencyKeys(StoredDefinition(result.rep)) = {})
           => (result.out = "list" /\ result.val = <<>>)

\* C2: for every name that is a key of the built index with an entry under
\* it, get_dependencies(name) returns a list: it never raises, whatever the
\* stored text looks like.
C2_LookupReturnsList ==
    (/\ result.op = "get_dependencies"
     /\ EntriesUnder(result.name) # {})
      => result.out = "list"

\* C3: a file that does not parse does not abort build_index: when the
\* constructor is over it has returned, and every definition of every
\* scanned file that parses is a key of the index (the common names apart).
C3_UnparseableFileSkipped ==
    phase \in {"built", "failed"} =>
      /\ phase = "built"
      /\ \A f \in files :
           (Scanned(f) /\ f \notin Broken) =>
             \A n \in DefNames(SourceTree(f)) \ common_syntax : n \in DOMAIN index

\* every entry under every key the definition node depends on is in the
\* returned list val, cut to MaxDepLen characters
ReturnsAllEntries(node, val) ==
    \A d \in DependencyKeys(node) :
      \A e \in index[d] : \E i \in 1..Len(val) : val[i] = Take(e, MaxDepLen)

\* C4: the list get_dependencies returns holds the stored source of every
\* entry under every identifier that is a bare-name call target or a
\* bare-name parameter annotation of the representative definition and is
\* an index key.
C4_AllEntriesReturned ==
    (result.op = "get_dependencies" /\ result.out = "list")
      => ReturnsAllEntries(Parse(result.rep).v.body[1], result.val)

\* C5: every element of the list get_dependencies returns is at most
\* MaxDepLen = 3000 characters long and is a prefix of the stored source of
\* an index entry: the whole of it when the entry is no longer than that.
C5_ElementsTruncated ==
    (result.op = "get_dependencies" /\ result.out = "list") =>
      \A i \in 1..Len(result.val) :
        /\ Len(result.val[i]) <= MaxDepLen
        /\ \E k \in DOMAIN index : \E e \in index[k] :
             /\ IsPrefix(result.val[i], e)
             /\ Len(e) <= MaxDepLen => result.val[i] = e

\* a returned element that is the first MaxDepLen characters of a longer
\* entry, beside one that is a whole entry
C5_Witness ==
    /\ result.op = "get_dependencies"
    /\ result.out = "list"
    /\ \E i \in 1..Len(result.val) :
         /\ Len(result.val[i]) = MaxDepLen
         /\ \E e \in EntriesUnder(n_big) :
              Len(e) > MaxDepLen /\ IsPrefix(result.val[i], e)
    /\ \E i \in 1..Len(result.val) : result.val[i] \in EntriesUnder(n_helper)

\* C6: definitions of one name in different files are kept as distinct
\* entries, also when their text is the same: after the build a key has at
\* least as many entries as there are scanned files that define it.
C6_SameNameKeptDistinct ==
    phase = "built" =>
      \A n \in DOMAIN index \ common_syntax :
        Cardinality(index[n]) >= Cardinality(Occurrences(n))

\* C7: once build_index has returned no step changes the index: neither
\* its keys nor the entries under a key.
C7_IndexReadOnly == [][phase = "built" => index' = index]_vars

\* the entries the scanned files of the tree give: the <<name, text>> pairs
\* the transformer files for them
ScannedEntries ==
    UNION {FileEntries(SourceTree(f)) : f \in {g \in files : Scanned(g) /\ g \notin Broken}}

\* C8: nothing in the built index comes from a file whose directory path
\* contains a marker, the markers being .venv, .mypy_cache and every folder
\* of the caller: every entry is one a scanned file gives, and a name that
\* only ignored files define has no entry.
C8_IgnoredFoldersLeftOut ==
    phase = "built" =>
      /\ UNION {{<<k, t>> : t \in index[k]} : k \in DOMAIN index} \subseteq ScannedEntries
      /\ \A f \in files :
           Ignored(f) =>
             \A n \in DefNames(SourceTree(f)) :
               Occurrences(n) = {} => EntriesUnder(n) = {}

\* a built index of a tree with a file under .venv and a file under a
\* folder of the caller, both defining names, and a scanned file that
\* defines one of these names too
C8_Witness ==
    /\ phase = "built"
    /\ folders_arg # <<>>
    /\ \E f \in files : Ignored(f) /\ Contains(RootOf(f), default_folders[1])
    /\ \E f \in files : Ignored(f) /\ Contains(RootOf(f), folders_arg[1])
    /\ EntriesUnder(n_v) = {}

\* a built index of a tree with a file under .venv that defines helper and
\* a scanned file that defines helper too
C8_WitnessShared ==
    /\ phase = "built"
    /\ \E f \in files : Ignored(f) /\ n_helper \in DefNames(SourceTree(f))
    /\ Occurrences(n_helper) # {}
    /\ EntriesUnder(n_helper) # {}

\* C9: after the build, whatever lookups follow, none of __init__,
\* __enter__, __exit__, str, dict, list, int, float is a key of the index.
C9_NoCommonKeys ==
    phase = "built" => \A n \in common_syntax : n \notin DOMAIN index

RECURSIVE CountIn(_, _)
\* how many definitions of the files F are named n
CountIn(F, n) ==
    IF F = {} THEN 0
    ELSE DefCount(SourceTree(CHOOSE f \in F : TRUE), n)
           + CountIn(F \ {CHOOSE f \in F : TRUE}, n)

\* how many definitions of the scanned files of the tree are named n
TreeCount(n) == CountIn(Occurrences(n), n)

\* C10: after the build, every definition whose name occurs once in the
\* scanned tree has exactly one entry under its name.
C10_OneEntryPerDefinition ==
    phase = "built" =>
      \A f \in files :
        (Scanned(f) /\ f \notin Broken) =>
          \A n \in DefNames(SourceTree(f)) \ common_syntax :
            TreeCount(n) = 1 => Cardinality(EntriesUnder(n)) = 1

\* C11: every function and class definition of a file that is parsed, at
\* whatever depth it is nested, is filed under its own name when the walk
\* goes past the file, and the step keeps every entry the index held.
C11_NestedFiledAndKept ==
    [][(phase = "walking" /\ phase' = "walking") =>
         /\ \A k \in DOMAIN index : k \in DOMAIN index' /\ index[k] \subseteq index'[k]
         /\ \A f \in visited' \ visited :
              (Scanned(f) /\ f \notin Broken) =>
                \A n \in DefNames(SourceTree(f)) :
                  n \in DOMAIN index' /\ index'[n] # {}]_vars

\* an index with the method of a class nested in a function nested in a
\* function, each under its own name, and with two texts under main, filed
\* from two files
C11_Witness ==
    /\ phase = "built"
    /\ \A n \in {n_outer, n_inner, n_Deep, n_meth} : EntriesUnder(n) # {}
    /\ Cardinality(EntriesUnder(n_main)) = 2

RECURSIVE DefNodes(_)
\* the function and class definitions in node, nested ones too
DefNodes(node) ==
    IF ~IsCompound(node) THEN {}
    ELSE (IF IsDef(node) THEN {node} ELSE {})
           \cup UNION {DefNodes(node.body[i]) : i \in 1..Len(node.body)}

\* the definitions written in the scanned files the walk has gone past
IndexedDefs ==
    UNION {DefNodes(SourceTree(f)) :
             f \in {g \in visited : Scanned(g) /\ g \notin Broken}}

\* the first body statement of the definition is a bare string literal
HasLeadingString(d) ==
    /\ d.body # <<>>
    /\ d.body[1].k = "Expr"
    /\ d.body[1].value.k = "Constant"
    /\ d.body[1].value.type = "str"

\* the documentation strings a stored source of d is to be free of: its
\* own and, for a class, those of the definitions directly in its body
DocStrings(d) ==
    {e.body[1].value.v :
       e \in {x \in {d} \cup (IF d.k = "ClassDef"
                              THEN {d.body[i] : i \in {j \in 1..Len(d.body) : IsDef(d.body[j])}}
                              ELSE {}) :
                HasLeadingString(x) /\ x.body[1].value.v # <<>>}}

\* C12: the stored source of a definition whose first body statement is a
\* bare string literal does not contain that string, and the stored source
\* of a class contains no documentation string of the functions and classes
\* directly in its body.
C12_DocStringsRemoved ==
    phase \in {"walking", "built"} =>
      \A d \in IndexedDefs :
        \A t \in EntriesUnder(d.name) :
          \A s \in DocStrings(d) : ~Contains(t, s)

\* the stored source of class Foo, whose body opens with "Example." and
\* holds a method and a class that open with strings of their own: the
\* method and the class are in it
C12_Witness ==
    /\ phase = "built"
    /\ "b" \in files
    /\ \E t \in EntriesUnder(n_Foo) :
         /\ Contains(t, KwDef \o n_bar)
         /\ Contains(t, KwClass \o n_In)
    /\ Cardinality(DocStrings(SourceTree("b").body[1])) = 3

\* s without the white space at its ends
RECURSIVE Trimmed(_)
Trimmed(s) ==
    IF s = <<>> THEN s
    ELSE IF Head(s) \in {" ", "\n", "\t"} THEN Trimmed(Tail(s))
    ELSE IF s[Len(s)] \in {" ", "\n", "\t"} THEN Trimmed(SubSeq(s, 1, Len(s) - 1))
    ELSE s

\* the definition as written opens with a string literal whose trimmed
\* length is greater than 1
HasDoc(d) == HasLeadingString(d) /\ Len(Trimmed(d.body[1].value.v)) > 1

\* C13: the has_doc flag recorded for an indexed definition is true exactly
\* when the definition as written opens with a string literal of trimmed
\* length greater than 1: build_doc_cache without use_all reads the flag of
\* every entry and queues the entries of the definitions without one.
C13_HasDocRecorded ==
    (result.op = "build_doc_cache" /\ ~result.use_all) =>
      /\ result.out = "done"
      /\ \A d \in IndexedDefs :
           (~HasDoc(d) /\ EntriesUnder(d.name) # {}) =>
             \E i \in 1..Len(result.val) : result.val[i] \in EntriesUnder(d.name)

\* C14: two SourceCode records are equal exactly when their file_path,
\* object_name and source_code are all equal, whatever characters the
\* values hold, and equal records have equal hashes.
C14_EqualIffSameTriple ==
    (result.op = "__eq__" /\ result.b.k = "SourceCode") =>
      /\ result.out <=> (/\ result.a.file_path = result.b.file_path
                         /\ result.a.object_name = result.b.object_name
                         /\ result.a.source_code = result.b.source_code)
      /\ result.out => result.hash_a = result.hash_b

\* the text of the file at an existing path
TextAt(path) == CHOOSE t \in FileAt(path) : TRUE

\* "def name" or "class name", as the claim words it
DefiningText(name, kind) ==
    IF kind = "function" THEN <<"d","e","f"," ">> \o name
    ELSE <<"c","l","a","s","s"," ">> \o name

\* where p first occurs in text
FirstOccurrence(text, p) ==
    CHOOSE i \in 1..Len(text) :
      /\ SubSeq(text, i, i + Len(p) - 1) = p
      /\ \A j \in 1..(i - 1) : SubSeq(text, j, j + Len(p) - 1) # p

\* the 1-based number of the line character i of text is on
LineOf(text, i) == 1 + Cardinality({j \in 1..(i - 1) : text[j] = "\n"})

\* the call looked in a file that is there, for a function or a class
Searched(r) ==
    /\ FileAt(r.file_path) # {}
    /\ r.obj_type \in {"function", "class"}

Matches(r) == Contains(TextAt(r.file_path), DefiningText(r.obj_name, r.obj_type))

\* C15: find_object_location returns the 1-based number of the first line,
\* in file order, that contains "def " + name or "class " + name.
C15_FirstMatchingLine ==
    (result.op = "find_object_location" /\ Searched(result) /\ Matches(result)) =>
      /\ result.out.k = "ObjectLocation"
      /\ result.out.row =
           LineOf(TextAt(result.file_path),
                  FirstOccurrence(TextAt(result.file_path),
                                  DefiningText(result.obj_name, result.obj_type)))

\* "def s" is looked for in g.py, where the line of `def str` comes
\* before the line of `def stub`
C15_Witness ==
    /\ result.op = "find_object_location"
    /\ result.obj_name = n_s /\ result.obj_type = "function"
    /\ result.file_path = PathOf("g")
    /\ result.out.k = "ObjectLocation" /\ result.out.row > 1
    /\ Cardinality({i \in 1..Len(readlines(TextAt(PathOf("g")))) :
                      Contains(readlines(TextAt(PathOf("g")))[i], KwDef \o n_s)}) = 2

\* C16: when no line of the file contains the defining text,
\* find_object_location returns None without raising and
\* SourceCode.location is None.
C16_NotFoundIsNone ==
    /\ (result.op = "find_object_location" /\ Searched(result) /\ ~Matches(result)) =>
         result.out = None
    /\ (/\ result.op = "location"
        /\ FileAt(result.self.file_path) # {}
        /\ ~Contains(TextAt(result.self.file_path),
                     DefiningText(result.self.object_name, result.self.object_type))) =>
         result.out = None

C16_Witness ==
    /\ result.op = "location"
    /\ result.self.file_path = PathOf("a") /\ result.self.object_name = n_Foo
    /\ result.self.object_type = "class"
    /\ result.out = None

\* C18: the call-reference collector visits the full subtree: every call
\* with a bare-name target anywhere inside the definition is collected,
\* inside the arguments of another call and inside nested definitions too.
C18_FullSubtree ==
    result.op = "_get_call_tree" => CallTargets(result.node) \subseteq Range(result.out)

RECURSIVE MemberNames(_)
\* the attribute names through which a member call is made in node
MemberNames(node) ==
    CASE node.k = "Call" ->
           (IF node.func.k = "Attribute" THEN {node.func.attr} ELSE {})
             \cup MemberNames(node.func)
             \cup UNION {MemberNames(node.args[i]) : i \in 1..Len(node.args)}
      [] node.k \in {"FunctionDef", "ClassDef", "If", "Module"} ->
           UNION {MemberNames(node.body[i]) : i \in 1..Len(node.body)}
      [] node.k \in {"Expr", "Return", "Attribute"} -> MemberNames(node.value)
      [] OTHER -> {}

\* C19: the collector records an identifier only when it is the bare-name
\* target of a call: no attribute name of a member call and nothing for a
\* call through a computed expression, and the list has no duplicates.
C19_OnlyBareTargets ==
    result.op = "_get_call_tree" =>
      /\ Range(result.out) \subseteq CallTargets(result.node)
      /\ Range(result.out) \cap (MemberNames(result.node) \ CallTargets(result.node)) = {}
      /\ \A i, j \in 1..Len(result.out) : result.out[i] = result.out[j] => i = j

\* u calls obj.foo(x), helper()() and bar twice: bar alone is collected
C19_Witness ==
    /\ result.op = "_get_call_tree" /\ result.node = def_u
    /\ result.out = <<n_bar>>
    /\ n_foo \in MemberNames(def_u)

\* C20: normalization removes a first body statement only when it is a
\* bare string literal: a definition that opens with anything else, `...`
\* or a number included, keeps its body, and normalizing a normalized
\* definition changes nothing.
C20_OnlyStringsRemoved ==
    result.op = "clean" =>
      /\ ~HasLeadingString(result.node) => result.out.body = result.node.body
      /\ result.again = result.out

\* C21: the type names get_dependencies uses are exactly the distinct
\* bare-name annotations of every parameter of the definition's own
\* parameter list; any other annotation gives no name, and a class
\* definition gives none.
C21_TypeNamesOfParameters ==
    result.op = "_get_args" =>
      /\ Range(result.out) = BareAnnotations(result.node)
      /\ \A i, j \in 1..Len(result.out) : result.out[i] = result.out[j] => i = j

RECURSIVE DocsKept(_, _)
\* every definition of node that opens with a string literal opens with
\* the same statement in after, the node at the same place
DocsKept(node, after) ==
    /\ (IsDef(node) /\ HasLeadingString(node)) =>
         (after.body # <<>> /\ after.body[1] = node.body[1])
    /\ \A i \in CompoundPos(node.body) :
         \E j \in CompoundPos(after.body) :
           /\ Cardinality({m \in CompoundPos(after.body) : m < j})
                = Cardinality({m \in CompoundPos(node.body) : m < i})
           /\ DocsKept(node.body[i], after.body[j])

\* C22: normalizing does not modify the parse tree it is given: after a
\* file is indexed, every definition of its tree that opened with a
\* documentation string still opens with it.
C22_TreeNotModified ==
    result.op = "walk" =>
      /\ result.after = result.tree
      /\ DocsKept(result.tree, result.after)

\* the answer is the N of the prompt, in either case
AnsweredN(a) == a \in {<<"N">>, <<"n">>}

\* the answer is the EXIT of the prompt, in any case
AnsweredExit(a) ==
    Len(a) = 4 /\ a[1] \in {"E", "e"} /\ a[2] \in {"X", "x"}
               /\ a[3] \in {"I", "i"} /\ a[4] \in {"T", "t"}

\* the positions of P from the lowest to the highest
InOrder(P) ==
    CHOOSE l \in [1..Cardinality(P) -> P] :
      \A i, j \in 1..Cardinality(P) : i < j => l[i] < l[j]

\* the cache file holds the entries loaded at the positions P, in their order
HoldsPositions(P, loaded) ==
    /\ cache.k = "file"
    /\ Len(cache.content) = Cardinality(P)
    /\ \A k \in 1..Cardinality(P) : model_validate(cache.content[k]) = loaded[InOrder(P)[k]]

\* C23: iter_docs writes back exactly the cached entries that were not
\* popped, in their original order and none twice: an entry answered N is
\* kept, an EXIT answer keeps the current entry and all after it and ends
\* the loop, and only entries answered with something else are removed.
C23_UnpoppedWrittenBack ==
    (run.op = "iter_docs" /\ run.pc = "done") =>
      \E P \in SUBSET (1..Len(run.results)) :
        /\ HoldsPositions(P, run.results)
        /\ Len(run.answers) <= Len(run.results)
        /\ \A i \in 1..Len(run.answers) :
             /\ AnsweredN(run.answers[i]) => i \in P
             /\ AnsweredExit(run.answers[i]) =>
                  (i = Len(run.answers) /\ \A j \in i..Len(run.results) : j \in P)
        /\ \A i \in (1..Len(run.results)) \ P :
             /\ i <= Len(run.answers)
             /\ ~AnsweredN(run.answers[i])
             /\ ~AnsweredExit(run.answers[i])

\* an entry is kept with N, one is popped with Y, and EXIT keeps the third
C23_Witness ==
    /\ run.op = "iter_docs" /\ run.pc = "done"
    /\ Len(run.results) = 3
    /\ run.answers = <<<<"N">>, <<"Y">>, <<"E","X","I","T">>>>
    /\ cache.k = "file"
    /\ Len(cache.content) = 2

\* C24: in build_doc_cache a failed generation does not stop the others:
\* the method does not raise, a run that is not dry leaves a cache file in
\* which every entry is about an indexed definition and no definition has
\* two entries, and a dry run leaves the cache file as it was.
C24_FailuresLeftOut ==
    [][\A use_all, dry \in BOOLEAN :
         build_doc_cache(use_all, dry) =>
           /\ result'.out # "raise"
           /\ dry => cache' = cache
           /\ ~dry =>
                /\ cache'.k = "file"
                /\ \A i \in 1..Len(cache'.content) :
                     /\ cache'.content[i].source.source_code \in AllEntries(index)
                     /\ \A j \in 1..Len(cache'.content) :
                          cache'.content[i].source = cache'.content[j].source => i = j]_vars

=============================================================================
